---- MODULE Spec2Model ----
(***************************************************************************)
(* Model of the annotation converters of ingress-traefik-converter:        *)
(* pkg/converters/middleware (ConfigurationSnippet, SSLRedirect,           *)
(* UpstreamVHost, ExtraAnnotations) writing into one shared conversion     *)
(* result.                                                                 *)
(*                                                                         *)
(* A Go string is a tuple of one-character strings, so that trimming,      *)
(* splitting, case folding and substring search are computed and not       *)
(* assumed.  Offsets follow Go: Index is 0-based and -1 when absent, and   *)
(* Slice(s, lo, hi) is s[lo:hi].                                           *)
(***************************************************************************)
EXTENDS Integers, Sequences, FiniteSets, TLC

VARIABLES
    ingress,  \* the resource being converted: [Namespace, IngressName]
    result,   \* ctx.Result: [Middlewares, Warnings], shared by all converters
    ran,      \* the converters that have run on this result
    last,     \* the last converter call: [op, ctx, before], before = the result it found
    probe     \* a helper function applied on its own: [fn, arg, out, done]

vars == <<ingress, result, ran, last, probe>>

(* ------------------------- Go strings package ------------------------- *)

\* unicode.IsSpace over the characters the inputs use
SpaceChars == {" ", "\t", "\n", "\r", "\f"}

IsSpace(c) == c \in SpaceChars

CaseFold ==
    ("A" :> "a") @@ ("B" :> "b") @@ ("C" :> "c") @@ ("D" :> "d") @@
    ("E" :> "e") @@ ("F" :> "f") @@ ("G" :> "g") @@ ("H" :> "h") @@
    ("I" :> "i") @@ ("J" :> "j") @@ ("K" :> "k") @@ ("L" :> "l") @@
    ("M" :> "m") @@ ("N" :> "n") @@ ("O" :> "o") @@ ("P" :> "p") @@
    ("Q" :> "q") @@ ("R" :> "r") @@ ("S" :> "s") @@ ("T" :> "t") @@
    ("U" :> "u") @@ ("V" :> "v") @@ ("W" :> "w") @@ ("X" :> "x") @@
    ("Y" :> "y") @@ ("Z" :> "z")

ToLowerChar(c) == IF c \in DOMAIN CaseFold THEN CaseFold[c] ELSE c

\* the characters of s case-folded, as a tuple
ToLower(s) == SubSeq([i \in 1..Len(s) |-> ToLowerChar(s[i])], 1, Len(s))

\* s[lo:hi]
Slice(s, lo, hi) == SubSeq(s, lo + 1, hi)

\* s[i:] starts with sub
MatchAt(s, sub, i) ==
    /\ i >= 0
    /\ i + Len(sub) <= Len(s)
    /\ (sub = <<>> \/ s[i + 1] = sub[1])
    /\ SubSeq(s, i + 1, i + Len(sub)) = sub

\* the smallest element of a non-empty set of integers
Min(S) == CHOOSE x \in S : \A y \in S : x <= y

Max(S) == CHOOSE x \in S : \A y \in S : x >= y

\* the offsets at which sub occurs in s
Occurrences(s, sub) ==
    IF sub = <<>> THEN 0..Len(s)
    ELSE {i \in 0..(Len(s) - Len(sub)) :
            s[i + 1] = sub[1] /\ SubSeq(s, i + 1, i + Len(sub)) = sub}

Contains(s, sub) ==
    \/ sub = <<>>
    \/ \E i \in 0..(Len(s) - Len(sub)) :
          s[i + 1] = sub[1] /\ SubSeq(s, i + 1, i + Len(sub)) = sub

Index(s, sub) == IF Contains(s, sub) THEN Min(Occurrences(s, sub)) ELSE -1

LastIndex(s, sub) == IF Contains(s, sub) THEN Max(Occurrences(s, sub)) ELSE -1

HasPrefix(s, p) == Len(s) >= Len(p) /\ SubSeq(s, 1, Len(p)) = p

HasSuffix(s, p) == Len(s) >= Len(p) /\ SubSeq(s, Len(s) - Len(p) + 1, Len(s)) = p

TrimSuffix(s, p) == IF HasSuffix(s, p) THEN SubSeq(s, 1, Len(s) - Len(p)) ELSE s

\* the first position >= i of s holding a character outside cutset, or Len(s) + 1
TrimLeftAt(s, cutset, i) ==
    IF \E j \in i..Len(s) : s[j] \notin cutset
    THEN CHOOSE j \in i..Len(s) : s[j] \notin cutset /\ \A k \in i..(j - 1) : s[k] \in cutset
    ELSE Len(s) + 1

\* the last position <= i of s holding a character outside cutset, or 0
TrimRightAt(s, cutset, i) ==
    IF \E j \in 1..i : s[j] \notin cutset
    THEN CHOOSE j \in 1..i : s[j] \notin cutset /\ \A k \in (j + 1)..i : s[k] \in cutset
    ELSE 0

\* strings.Trim(s, cutset): strip leading and trailing characters of cutset
Trim(s, cutset) == SubSeq(s, TrimLeftAt(s, cutset, 1), TrimRightAt(s, cutset, Len(s)))

TrimSpace(s) == Trim(s, SpaceChars)

RECURSIVE Split(_, _)
Split(s, sep) ==
    LET i == Index(s, sep)
    IN  IF i = -1 THEN <<s>>
        ELSE <<Slice(s, 0, i)>> \o Split(Slice(s, i + Len(sep), Len(s)), sep)

RECURSIVE SplitN(_, _, _)
SplitN(s, sep, n) ==
    LET i == Index(s, sep)
    IN  IF n = 0 THEN <<>>
        ELSE IF n = 1 \/ i = -1 THEN <<s>>
        ELSE <<Slice(s, 0, i)>> \o SplitN(Slice(s, i + Len(sep), Len(s)), sep, n - 1)

\* the first position >= i of s holding a space, or Len(s) + 1
WordEnd(s, i) ==
    IF \E j \in i..Len(s) : IsSpace(s[j])
    THEN CHOOSE j \in i..Len(s) : IsSpace(s[j]) /\ \A k \in i..(j - 1) : ~IsSpace(s[k])
    ELSE Len(s) + 1

\* strings.Fields of s from position i on
RECURSIVE FieldsFrom(_, _)
FieldsFrom(s, i) ==
    LET lo == TrimLeftAt(s, SpaceChars, i)
        hi == WordEnd(s, lo)
    IN  IF lo > Len(s) THEN <<>>
        ELSE <<SubSeq(s, lo, hi - 1)>> \o FieldsFrom(s, hi)

Fields(s) == FieldsFrom(s, 1)

RECURSIVE Join(_, _)
Join(parts, sep) ==
    IF parts = <<>> THEN <<>>
    ELSE IF Len(parts) = 1 THEN parts[1]
    ELSE parts[1] \o sep \o Join(Tail(parts), sep)

Digits == <<"0", "1", "2", "3", "4", "5", "6", "7", "8", "9">>

IsDigit(c) == \E d \in 1..Len(Digits) : Digits[d] = c

DigitValue(c) == (CHOOSE d \in 1..Len(Digits) : Digits[d] = c) - 1

RECURSIVE Decimal(_)
Decimal(s) == IF s = <<>> THEN 0 ELSE Decimal(SubSeq(s, 1, Len(s) - 1)) * 10 + DigitValue(s[Len(s)])

\* strconv.ParseInt(s, 10, 64) with the error dropped: 0 on a syntax error
\* (the inputs stay far below the int64 range, where ParseInt clamps)
ParseInt(s) ==
    LET signed == s # <<>> /\ s[1] \in {"+", "-"}
        body   == IF signed THEN Tail(s) ELSE s
    IN  IF body = <<>> \/ \E i \in 1..Len(body) : ~IsDigit(body[i]) THEN 0
        ELSE IF signed /\ s[1] = "-" THEN 0 - Decimal(body)
        ELSE Decimal(body)

(* --------------------- configuration_snippet.go ---------------------- *)

\* A warning is the tuple of the string pieces the code concatenates.
unsupported ==
    (<<"g","z","i","p">> :> [Enterprise |-> FALSE,
        Message |-> "gzip is only configurable via middleware in Traefik and was ignored"])
    @@ (<<"g","z","i","p","_","c","o","m","p","_","l","e","v","e","l">> :> [Enterprise |-> FALSE,
        Message |-> "gzip_comp_level is not configurable in Traefik"])
    @@ (<<"g","z","i","p","_","t","y","p","e","s">> :> [Enterprise |-> FALSE,
        Message |-> "gzip_types is not configurable in Traefik"])
    @@ (<<"p","r","o","x","y","_","b","u","f","f","e","r","_","s","i","z","e">> :> [Enterprise |-> FALSE,
        Message |-> "proxy_buffer_size is not supported in Traefik"])
    @@ (<<"p","r","o","x","y","_","c","a","c","h","e">> :> [Enterprise |-> TRUE,
        Message |-> "proxy_cache is not supported in Traefik OSS"])

\* map[string]string: a function whose domain is the set of keys
EmptyMap == <<>>

MapSet(m, k, v) == [x \in (DOMAIN m) \cup {k} |-> IF x = k THEN v ELSE m[x]]

\* m[k] of a Go map: the zero value for a missing key
MapGet(m, k) == IF k \in DOMAIN m THEN m[k] ELSE <<>>

RECURSIVE nonEmptyTrimmed(_)
nonEmptyTrimmed(ls) ==
    IF ls = <<>> THEN <<>>
    ELSE LET t == TrimSpace(Head(ls))
         IN  (IF t # <<>> THEN <<t>> ELSE <<>>) \o nonEmptyTrimmed(Tail(ls))

splitLines(s) == nonEmptyTrimmed(Split(s, <<"\n">>))

directive(line) ==
    LET fields == Fields(line)
    IN  IF Len(fields) = 0 THEN <<>> ELSE fields[1]

warnUnsupported(warnings, d) ==
    LET msg == IF d.Enterprise
               THEN <<d.Message,
                      ". Traefik Enterprise provides an alternative, but it cannot be auto-converted.">>
               ELSE <<d.Message>>
    IN  Append(warnings, msg)

\* returns <<key, value>>
parseProxySetHeader(line0) ==
    LET line  == TrimSuffix(line0, <<";">>)
        parts == Fields(line)
    IN  IF Len(parts) < 3 THEN <<<<>>, <<>>>>
        ELSE <<Trim(parts[2], {"\""}), Join(SubSeq(parts, 3, Len(parts)), <<" ">>)>>

\* returns <<key, value, ok>>
parseResponseHeader(line0) ==
    LET line == TrimSuffix(TrimSpace(line0), <<";">>)
    IN  IF HasPrefix(line, <<"m","o","r","e","_","s","e","t","_","h","e","a","d","e","r","s">>)
        THEN LET start == Index(line, <<"\"">>)
                 end   == LastIndex(line, <<"\"">>)
             IN  IF start = -1 \/ end <= start THEN <<<<>>, <<>>, FALSE>>
                 ELSE LET kv == SplitN(Slice(line, start + 1, end), <<":">>, 2)
                      IN  IF Len(kv) # 2 THEN <<<<>>, <<>>, FALSE>>
                          ELSE <<TrimSpace(kv[1]), TrimSpace(kv[2]), TRUE>>
        ELSE IF HasPrefix(line, <<"a","d","d","_","h","e","a","d","e","r">>)
        THEN LET fields == Fields(line)
             IN  IF Len(fields) < 3 THEN <<<<>>, <<>>, FALSE>>
                 ELSE <<Trim(fields[2], {"\""}),
                        Trim(Join(SubSeq(fields, 3, Len(fields)), <<" ">>), {"\""}),
                        TRUE>>
        ELSE <<<<>>, <<>>, FALSE>>

\* \s of the regexp package
RegexSpace == {" ", "\t", "\n", "\r", "\f"}

\* the offset after the longest run of \s starting at offset i
skipSpace(s, i) == TrimLeftAt(s, RegexSpace, i + 1) - 1

\* originIfRe = \$http_origin\s+~\*\s+\((.+?)\)\s*\) anchored at offset i:
\* the set of offsets at which the capture group may end
originIfEnds(s, i) ==
    LET a == i + Len(<<"$","h","t","t","p","_","o","r","i","g","i","n">>)
        b == skipSpace(s, a)
        c == b + Len(<<"~","*">>)
        d == skipSpace(s, c)
        k == d + 1
    IN  IF /\ MatchAt(s, <<"$","h","t","t","p","_","o","r","i","g","i","n">>, i)
           /\ b > a
           /\ MatchAt(s, <<"~","*">>, b)
           /\ d > c
           /\ MatchAt(s, <<"(">>, d)
        THEN {e \in (k + 1)..Len(s) :
                /\ \A j \in (k + 1)..e : s[j] # "\n"
                /\ MatchAt(s, <<")">>, e)
                /\ MatchAt(s, <<")">>, skipSpace(s, e + 1))}
        ELSE {}

\* originIfRe.FindStringSubmatch(l): <<>> when there is no match, else
\* <<whole match, group 1>>; leftmost match, the lazy group as short as possible
originIfReFindStringSubmatch(s) ==
    LET starts == {i \in 0..Len(s) : originIfEnds(s, i) # {}}
    IN  IF starts = {} THEN <<>>
        ELSE LET i    == Min(starts)
                 ends == originIfEnds(s, i)
                 e    == Min(ends)
                 d    == skipSpace(s, skipSpace(s, i + Len(<<"$","h","t","t","p","_","o","r","i","g","i","n">>)) + Len(<<"~","*">>))
             IN  <<Slice(s, i, skipSpace(s, e + 1) + 1), Slice(s, d + 1, e)>>

\* returns <<regex, ok>>
RECURSIVE extractOriginRegex(_)
extractOriginRegex(lines) ==
    IF lines = <<>> THEN <<<<>>, FALSE>>
    ELSE LET m == originIfReFindStringSubmatch(Head(lines))
         IN  IF Len(m) = 2 THEN <<m[2], TRUE>> ELSE extractOriginRegex(Tail(lines))

\* the inner loop of extractQuotedHeaderValue for one quote character
RECURSIVE quotedValues(_, _)
quotedValues(tmp, quote) ==
    LET start == Index(tmp, quote)
    IN  IF start = -1 THEN <<>>
        ELSE LET rel == Index(Slice(tmp, start + 1, Len(tmp)), quote)
             IN  IF rel = -1 THEN <<>>
                 ELSE LET end == start + 1 + rel
                      IN  <<Slice(tmp, start + 1, end)>>
                            \o quotedValues(Slice(tmp, end + 1, Len(tmp)), quote)

extractQuotedHeaderValue(line) ==
    LET values == quotedValues(line, <<"\"">>) \o quotedValues(line, <<"'">>)
    IN  IF Len(values) = 0 THEN <<>> ELSE values[Len(values)]

RECURSIVE trimmedNonEmpty(_)
trimmedNonEmpty(ps) ==
    IF ps = <<>> THEN <<>>
    ELSE LET t == TrimSpace(Head(ps))
         IN  (IF t # <<>> THEN <<t>> ELSE <<>>) \o trimmedNonEmpty(Tail(ps))

splitCSV(v) == trimmedNonEmpty(Split(v, <<",">>))

extractInt(line) ==
    LET fields == Fields(line)
    IN  IF Len(fields) = 0 THEN 0
        ELSE ParseInt(TrimSuffix(fields[Len(fields)], <<";">>))

(* ---- conditional CORS ---- *)

isDisqualifying(l) ==
    \/ Contains(l, <<"r","e","w","r","i","t","e">>)
    \/ Contains(l, <<"p","r","o","x","y","_","p","a","s","s">>)
    \/ Contains(l, <<"f","a","s","t","c","g","i">>)
    \/ Contains(l, <<"l","u","a","_">>)
    \/ Contains(l, <<"s","e","t"," ">>)

\* the loop with "break" in place of "return false" at a disqualifying line
RECURSIVE isConditionalCORSLoopBreak(_, _, _, _)
isConditionalCORSLoopBreak(lines, i, hasOriginIf, hasMethods) ==
    IF i > Len(lines) THEN hasOriginIf /\ hasMethods
    ELSE LET l == ToLower(lines[i])
         IN  IF isDisqualifying(l) THEN hasOriginIf /\ hasMethods
             ELSE isConditionalCORSLoopBreak(lines, i + 1,
                     hasOriginIf \/ Contains(l, <<"i","f"," ","(","$","h","t","t","p","_","o","r","i","g","i","n">>),
                     hasMethods \/ Contains(l, <<"a","c","c","e","s","s","-","c","o","n","t","r","o","l","-","a","l","l","o","w","-","m","e","t","h","o","d","s">>))

\* the loop of isConditionalCORSSnippet from line i on
RECURSIVE isConditionalCORSLoop(_, _, _, _)
isConditionalCORSLoop(lines, i, hasOriginIf, hasMethods) ==
    IF i > Len(lines) THEN hasOriginIf /\ hasMethods
    ELSE LET l == ToLower(lines[i])
         IN  IF isDisqualifying(l) THEN FALSE
             ELSE isConditionalCORSLoop(lines, i + 1,
                     hasOriginIf \/ Contains(l, <<"i","f"," ","(","$","h","t","t","p","_","o","r","i","g","i","n">>),
                     hasMethods \/ Contains(l, <<"a","c","c","e","s","s","-","c","o","n","t","r","o","l","-","a","l","l","o","w","-","m","e","t","h","o","d","s">>))

isConditionalCORSSnippet(lines) == isConditionalCORSLoop(lines, 1, FALSE, FALSE)

\* corsConfig; AllowCreds is the pointer: <<>> for nil, <<b>> for &b
ZeroCorsConfig ==
    [OriginRegex |-> <<>>, AllowHeaders |-> <<>>, AllowMethods |-> <<>>,
     AllowCreds |-> <<>>, MaxAge |-> 0]

\* one iteration of the scan of parseConditionalCORSSnippet
corsLine(cfg, raw) ==
    LET line  == TrimSpace(raw)
        lower == ToLower(line)
    IN  IF Contains(lower, <<"a","c","c","e","s","s","-","c","o","n","t","r","o","l","-","a","l","l","o","w","-","h","e","a","d","e","r","s">>)
        THEN [cfg EXCEPT !.AllowHeaders = splitCSV(extractQuotedHeaderValue(line))]
        ELSE IF Contains(lower, <<"a","c","c","e","s","s","-","c","o","n","t","r","o","l","-","a","l","l","o","w","-","m","e","t","h","o","d","s">>)
        THEN [cfg EXCEPT !.AllowMethods = splitCSV(extractQuotedHeaderValue(line))]
        ELSE IF Contains(lower, <<"a","c","c","e","s","s","-","c","o","n","t","r","o","l","-","a","l","l","o","w","-","c","r","e","d","e","n","t","i","a","l","s">>)
        THEN LET v == ToLower(extractQuotedHeaderValue(line))
             IN  IF v = <<"t","r","u","e">> \/ v = <<"f","a","l","s","e">>
                 THEN [cfg EXCEPT !.AllowCreds = <<v = <<"t","r","u","e">>>>]
                 ELSE cfg
        ELSE IF Contains(lower, <<"a","c","c","e","s","s","-","c","o","n","t","r","o","l","-","m","a","x","-","a","g","e">>)
        THEN LET age == extractInt(line)
             IN  IF age > 0 THEN [cfg EXCEPT !.MaxAge = age] ELSE cfg
        ELSE cfg

RECURSIVE corsScan(_, _)
corsScan(cfg, lines) ==
    IF lines = <<>> THEN cfg ELSE corsScan(corsLine(cfg, Head(lines)), Tail(lines))

defaultMethods == <<<<"G","E","T">>, <<"P","O","S","T">>, <<"P","U","T">>, <<"D","E","L","E","T","E">>, <<"O","P","T","I","O","N","S">>>>

\* parseConditionalCORSSnippet without the default method list
parseConditionalCORSSnippetNoDefault(lines) ==
    LET origin == extractOriginRegex(lines)
    IN  IF ~origin[2] THEN [cfg |-> ZeroCorsConfig, err |-> TRUE]
        ELSE [cfg |-> corsScan([ZeroCorsConfig EXCEPT !.OriginRegex = origin[1]], lines),
              err |-> FALSE]

\* returns [cfg, err]; err = TRUE is the "no origin regex found" error
parseConditionalCORSSnippet(lines) ==
    LET origin == extractOriginRegex(lines)
    IN  IF ~origin[2] THEN [cfg |-> ZeroCorsConfig, err |-> TRUE]
        ELSE LET cfg == corsScan([ZeroCorsConfig EXCEPT !.OriginRegex = origin[1]], lines)
             IN  [cfg |-> IF Len(cfg.AllowMethods) = 0
                          THEN [cfg EXCEPT !.AllowMethods = defaultMethods]
                          ELSE cfg,
                  err |-> FALSE]

(* ---- middleware objects ---- *)

\* dynamic.Headers, the fields this package sets
ZeroHeaders ==
    [CustomRequestHeaders |-> EmptyMap, CustomResponseHeaders |-> EmptyMap,
     AccessControlAllowMethods |-> <<>>, AccessControlAllowHeaders |-> <<>>,
     AccessControlAllowOriginListRegex |-> <<>>, AccessControlMaxAge |-> 0,
     AccessControlAllowCredentials |-> FALSE]

\* <base>-<suffix>, as the pieces joined
mwName(ctx, name) == <<ctx.IngressName, "-", name>>

\* traefik.Middleware; a nil pointer of Spec is <<>>, a set one <<value>>
Middleware(ctx, name, headers, redirect) ==
    [APIVersion |-> "traefik.io/v1alpha1", Kind |-> "Middleware",
     Name |-> mwName(ctx, name), Namespace |-> ctx.Namespace,
     Spec |-> [Headers |-> headers, RedirectScheme |-> redirect]]

newHeadersMiddleware(ctx, name, headers) == Middleware(ctx, name, <<headers>>, <<>>)

\* emitCORSMiddleware warning of a partial parse only when both lists are empty
emitCORSMiddlewareBothEmpty(ctx, res, cfg) ==
    LET headers0 == [ZeroHeaders EXCEPT
                        !.AccessControlAllowMethods = cfg.AllowMethods,
                        !.AccessControlAllowHeaders = cfg.AllowHeaders,
                        !.AccessControlAllowOriginListRegex = <<cfg.OriginRegex>>,
                        !.AccessControlMaxAge = cfg.MaxAge]
        headers  == IF cfg.AllowCreds # <<>>
                    THEN [headers0 EXCEPT !.AccessControlAllowCredentials = cfg.AllowCreds[1]]
                    ELSE headers0
        mws      == Append(res.Middlewares, newHeadersMiddleware(ctx, "cors", headers))
        w1       == IF Len(cfg.AllowHeaders) = 0 /\ Len(cfg.AllowMethods) = 0
                    THEN Append(res.Warnings,
                            <<"conditional CORS snippet was partially parsed; verify generated middleware">>)
                    ELSE res.Warnings
    IN  [Middlewares |-> mws,
         Warnings |-> Append(w1,
            <<"conditional NGINX CORS logic was converted to Traefik CORS middleware">>)]

\* returns the result after the call
emitCORSMiddleware(ctx, res, cfg) ==
    LET headers0 == [ZeroHeaders EXCEPT
                        !.AccessControlAllowMethods = cfg.AllowMethods,
                        !.AccessControlAllowHeaders = cfg.AllowHeaders,
                        !.AccessControlAllowOriginListRegex = <<cfg.OriginRegex>>,
                        !.AccessControlMaxAge = cfg.MaxAge]
        headers  == IF cfg.AllowCreds # <<>>
                    THEN [headers0 EXCEPT !.AccessControlAllowCredentials = cfg.AllowCreds[1]]
                    ELSE headers0
        mws      == Append(res.Middlewares, newHeadersMiddleware(ctx, "cors", headers))
        w1       == IF Len(cfg.AllowHeaders) = 0 \/ Len(cfg.AllowMethods) = 0
                    THEN Append(res.Warnings,
                            <<"conditional CORS snippet was partially parsed; verify generated middleware">>)
                    ELSE res.Warnings
    IN  [Middlewares |-> mws,
         Warnings |-> Append(w1,
            <<"conditional NGINX CORS logic was converted to Traefik CORS middleware">>)]

(* ---- generic snippet ---- *)

unsupportedKeywords ==
    {<<"g","z","i","p">>, <<"g","z","i","p","_","c","o","m","p","_","l","e","v","e","l">>, <<"g","z","i","p","_","t","y","p","e","s">>, <<"p","r","o","x","y","_","b","u","f","f","e","r","_","s","i","z","e">>, <<"p","r","o","x","y","_","c","a","c","h","e">>}

\* one iteration of the loop of convertGenericSnippet;
\* st = [reqHeaders, respHeaders, warnings]
genericLine(st, raw) ==
    LET line  == TrimSpace(raw)
        lower == ToLower(line)
        d     == directive(lower)
    IN  IF line = <<>> THEN st
        ELSE IF d \in {<<"a","d","d","_","h","e","a","d","e","r">>, <<"m","o","r","e","_","s","e","t","_","h","e","a","d","e","r","s">>}
        THEN LET r == parseResponseHeader(line)
             IN  IF r[3]
                 THEN [st EXCEPT !.respHeaders = MapSet(@, r[1], r[2])]
                 ELSE [st EXCEPT !.warnings =
                          Append(@, <<"failed to parse header directive: ">> \o line)]
        ELSE IF d = <<"p","r","o","x","y","_","s","e","t","_","h","e","a","d","e","r">>
        THEN LET kv  == parseProxySetHeader(line)
                 st1 == IF kv[1] # <<>>
                        THEN [st EXCEPT !.reqHeaders = MapSet(@, kv[1], kv[2])]
                        ELSE st
             IN  IF Contains(kv[2], <<"$">>)
                 THEN [st1 EXCEPT !.warnings = Append(@,
                         <<"proxy_set_header uses NGINX variables which are not evaluated by Traefik">>)]
                 ELSE st1
        ELSE IF d \in unsupportedKeywords
        THEN IF d \in DOMAIN unsupported
             THEN [st EXCEPT !.warnings = warnUnsupported(@, unsupported[d])]
             ELSE st
        ELSE [st EXCEPT !.warnings = Append(@,
                <<"unsupported directive in configuration-snippet was ignored: ">> \o line)]

RECURSIVE genericScan(_, _)
genericScan(st, lines) ==
    IF lines = <<>> THEN st ELSE genericScan(genericLine(st, Head(lines)), Tail(lines))

\* convertGenericSnippet returning early when either header map is empty
convertGenericSnippetEitherEmpty(ctx, res, lines) ==
    LET st == genericScan([reqHeaders |-> EmptyMap, respHeaders |-> EmptyMap,
                           warnings |-> <<>>], lines)
        ws == res.Warnings \o st.warnings
    IN  IF Cardinality(DOMAIN st.reqHeaders) = 0 \/ Cardinality(DOMAIN st.respHeaders) = 0
        THEN [Middlewares |-> res.Middlewares, Warnings |-> ws]
        ELSE [Middlewares |-> Append(res.Middlewares,
                 newHeadersMiddleware(ctx, "snippet-headers",
                    [ZeroHeaders EXCEPT !.CustomRequestHeaders = st.reqHeaders,
                                        !.CustomResponseHeaders = st.respHeaders])),
              Warnings |-> ws]

\* convertGenericSnippet putting its warnings in front of those already there
convertGenericSnippetWarningsFirst(ctx, res, lines) ==
    LET st == genericScan([reqHeaders |-> EmptyMap, respHeaders |-> EmptyMap,
                           warnings |-> <<>>], lines)
        ws == st.warnings \o res.Warnings
    IN  IF Cardinality(DOMAIN st.reqHeaders) = 0 /\ Cardinality(DOMAIN st.respHeaders) = 0
        THEN [Middlewares |-> res.Middlewares, Warnings |-> ws]
        ELSE [Middlewares |-> Append(res.Middlewares,
                 newHeadersMiddleware(ctx, "snippet-headers",
                    [ZeroHeaders EXCEPT !.CustomRequestHeaders = st.reqHeaders,
                                        !.CustomResponseHeaders = st.respHeaders])),
              Warnings |-> ws]

\* returns the result after the call
convertGenericSnippet(ctx, res, lines) ==
    LET st == genericScan([reqHeaders |-> EmptyMap, respHeaders |-> EmptyMap,
                           warnings |-> <<>>], lines)
        ws == res.Warnings \o st.warnings
    IN  IF Cardinality(DOMAIN st.reqHeaders) = 0 /\ Cardinality(DOMAIN st.respHeaders) = 0
        THEN [Middlewares |-> res.Middlewares, Warnings |-> ws]
        ELSE [Middlewares |-> Append(res.Middlewares,
                 newHeadersMiddleware(ctx, "snippet-headers",
                    [ZeroHeaders EXCEPT !.CustomRequestHeaders = st.reqHeaders,
                                        !.CustomResponseHeaders = st.respHeaders])),
              Warnings |-> ws]

SnippetKey == "nginx.ingress.kubernetes.io/configuration-snippet"

\* ConfigurationSnippet without the "return" after emitCORSMiddleware
ConfigurationSnippetNoReturnAfterEmit(ctx, res) ==
    IF SnippetKey \notin DOMAIN ctx.Annotations THEN res
    ELSE LET lines == splitLines(ctx.Annotations[SnippetKey])
         IN  IF Len(lines) = 0 THEN res
             ELSE IF isConditionalCORSSnippet(lines)
             THEN LET p == parseConditionalCORSSnippet(lines)
                  IN  IF p.err
                      THEN [res EXCEPT !.Warnings = Append(@,
                              <<"failed to parse conditional CORS snippet; skipped">>)]
                      ELSE convertGenericSnippet(ctx, emitCORSMiddleware(ctx, res, p.cfg), lines)
             ELSE convertGenericSnippet(ctx, res, lines)

\* ConfigurationSnippet falling back to the generic scan after the parse-failure warning
ConfigurationSnippetFallBackAfterWarning(ctx, res) ==
    IF SnippetKey \notin DOMAIN ctx.Annotations THEN res
    ELSE LET lines == splitLines(ctx.Annotations[SnippetKey])
         IN  IF Len(lines) = 0 THEN res
             ELSE IF isConditionalCORSSnippet(lines)
             THEN LET p == parseConditionalCORSSnippet(lines)
                  IN  IF p.err
                      THEN convertGenericSnippet(ctx,
                              [res EXCEPT !.Warnings = Append(@,
                                  <<"failed to parse conditional CORS snippet; skipped">>)],
                              lines)
                      ELSE emitCORSMiddleware(ctx, res, p.cfg)
             ELSE convertGenericSnippet(ctx, res, lines)

\* ConfigurationSnippet(ctx) on the shared result res: the result after it
ConfigurationSnippet(ctx, res) ==
    IF SnippetKey \notin DOMAIN ctx.Annotations THEN res
    ELSE LET lines == splitLines(ctx.Annotations[SnippetKey])
         IN  IF Len(lines) = 0 THEN res
             ELSE IF isConditionalCORSSnippet(lines)
             THEN LET p == parseConditionalCORSSnippet(lines)
                  IN  IF p.err
                      THEN [res EXCEPT !.Warnings = Append(@,
                              <<"failed to parse conditional CORS snippet; skipped">>)]
                      ELSE emitCORSMiddleware(ctx, res, p.cfg)
             ELSE convertGenericSnippet(ctx, res, lines)

(* ------------------------- the other converters ------------------------ *)

SslRedirectKey == "nginx.ingress.kubernetes.io/ssl-redirect"
ForceSslRedirectKey == "nginx.ingress.kubernetes.io/force-ssl-redirect"
UpstreamVhostKey == "nginx.ingress.kubernetes.io/upstream-vhost"
ProxyBufferingKey == "nginx.ingress.kubernetes.io/proxy-buffering"
ServiceUpstreamKey == "nginx.ingress.kubernetes.io/service-upstream"
EnableOpentracingKey == "nginx.ingress.kubernetes.io/enable-opentracing"
EnableOpentelemetryKey == "nginx.ingress.kubernetes.io/enable-opentelemetry"
BackendProtocolKey == "nginx.ingress.kubernetes.io/backend-protocol"
GrpcBackendKey == "nginx.ingress.kubernetes.io/grpc-backend"

SSLRedirect(ctx, res) ==
    LET ssl   == MapGet(ctx.Annotations, SslRedirectKey)
        force == MapGet(ctx.Annotations, ForceSslRedirectKey)
    IN  IF ssl # <<"t","r","u","e">> /\ force # <<"t","r","u","e">> THEN res
        ELSE [res EXCEPT !.Middlewares = Append(@,
                Middleware(ctx, "https-redirect", <<>>,
                    <<[Scheme |-> "https", Permanent |-> TRUE]>>))]

UpstreamVHost(ctx, res) ==
    IF \/ UpstreamVhostKey \notin DOMAIN ctx.Annotations
       \/ TrimSpace(ctx.Annotations[UpstreamVhostKey]) = <<>>
    THEN res
    ELSE [res EXCEPT !.Middlewares = Append(@,
            newHeadersMiddleware(ctx, "upstream-vhost",
                [ZeroHeaders EXCEPT !.CustomRequestHeaders =
                    MapSet(EmptyMap, <<"H","o","s","t">>, ctx.Annotations[UpstreamVhostKey])]))]

\* appends w to ws when cond holds
warnIf(ws, cond, w) == IF cond THEN Append(ws, w) ELSE ws

ExtraAnnotations(ctx, res) ==
    LET a  == ctx.Annotations
        w1 == warnIf(res.Warnings, MapGet(a, ProxyBufferingKey) = <<"o","f","f">>,
                <<"proxy-buffering=off is default behavior in Traefik">>)
        w2 == warnIf(w1, MapGet(a, ServiceUpstreamKey) = <<"t","r","u","e">>,
                <<"service-upstream=true is default behavior in Traefik">>)
        w3 == warnIf(w2, MapGet(a, EnableOpentracingKey) = <<"t","r","u","e">>,
                <<"enable-opentracing is global in Traefik and cannot be enabled per Ingress">>)
        w4 == warnIf(w3, MapGet(a, EnableOpentelemetryKey) = <<"t","r","u","e">>,
                <<"enable-opentelemetry must be configured globally in Traefik static config",
                  "tracing:\n  otlp:\n    grpc:\n      endpoint: otel-collector:4317">>)
        w5 == warnIf(w4, MapGet(a, BackendProtocolKey) # <<>>,
                <<"backend-protocol must be applied to IngressRoute service scheme, check for generated ingressroutes.yaml">>)
        w6 == warnIf(w5, MapGet(a, GrpcBackendKey) = <<"t","r","u","e">>,
                <<"grpc-backend requires IngressRoute service scheme h2c or https+h2, check for generated ingressroutes.yaml">>)
    IN  [res EXCEPT !.Warnings = w6]

(* ------------------------------- inputs ------------------------------- *)

\* lines of a snippet per annotation
MaxLines == 2
\* lines of a snippet of the conditional-CORS runs
MaxCorsLines == 3
\* converter calls on one result
MaxCalls == 2
\* lines handed to the detector applied on its own
MaxDetectLines == 3
\* tokens of a line handed to extractQuotedHeaderValue applied on its own
MaxTokens == 3

Ingresses ==
    {[Namespace |-> "default", IngressName |-> "web"],
     [Namespace |-> "prod", IngressName |-> "api"]}

\* raw lines, as written in the annotation (before trimming)
GenericLines ==
    {<<"a","d","d","_","h","e","a","d","e","r"," ","X","-","T","e","s","t"," ","\"","1","\"",";">>,
     <<"A","D","D","_","H","E","A","D","E","R"," ","X","-","T","e","s","t"," ","\"","1","\"",";">>,
     <<"\t","a","d","d","_","h","e","a","d","e","r"," ","X","-","T","e","s","t"," ","t","w","o"," ","w","o","r","d","s",";"," "," ">>,
     <<"m","o","r","e","_","s","e","t","_","h","e","a","d","e","r","s"," ","\"","X","-","A",":"," ","b","\"",";">>,
     <<"m","o","r","e","_","s","e","t","_","h","e","a","d","e","r","s"," ","X","-","A",";">>,
     <<"p","r","o","x","y","_","s","e","t","_","h","e","a","d","e","r"," ","H","o","s","t"," ","$","h","o","s","t",";">>,
     <<"p","r","o","x","y","_","s","e","t","_","h","e","a","d","e","r"," ","H","o","s","t">>,
     <<"p","r","o","x","y","_","c","a","c","h","e"," ","c",";">>,
     <<" ","\t">>,
     <<"i","f"," ","(","$","h","t","t","p","_","o","r","i","g","i","n"," ","~","*"," ","(","a","\\",".","b",")",")"," ","{">>,
     <<"a","d","d","_","h","e","a","d","e","r"," ","A","c","c","e","s","s","-","C","o","n","t","r","o","l","-","A","l","l","o","w","-","M","e","t","h","o","d","s"," ","\"","G","E","T",","," ","P","O","S","T","\"",";">>}

CorsLines ==
    {<<"i","f"," ","(","$","h","t","t","p","_","o","r","i","g","i","n"," ","~","*"," ","(","h","t","t","p","s",":","/","/","a","\\",".","b",")",")"," ","{">>,
     <<"I","F"," ","(","$","H","T","T","P","_","O","R","I","G","I","N"," ","~","*"," ","(","a",")",")"," ","{">>,
     <<"a","d","d","_","h","e","a","d","e","r"," ","A","c","c","e","s","s","-","C","o","n","t","r","o","l","-","A","l","l","o","w","-","M","e","t","h","o","d","s"," ","\"","G","E","T",","," ","P","O","S","T","\"",";">>,
     <<"a","d","d","_","h","e","a","d","e","r"," ","A","c","c","e","s","s","-","C","o","n","t","r","o","l","-","A","l","l","o","w","-","M","e","t","h","o","d","s"," ","\""," ",","," ","\"",";">>,
     <<"a","d","d","_","h","e","a","d","e","r"," ","A","c","c","e","s","s","-","C","o","n","t","r","o","l","-","A","l","l","o","w","-","H","e","a","d","e","r","s"," ","\"","X","-","A",",","X","-","B","\"",";">>,
     <<"a","d","d","_","h","e","a","d","e","r"," ","A","c","c","e","s","s","-","C","o","n","t","r","o","l","-","M","a","x","-","A","g","e"," ","6","0","0",";">>,
     <<"r","e","w","r","i","t","e"," ","^"," ","/","f","o","o",";">>}

\* trimmed lines for the detector
DetectLines ==
    {<<"i","f"," ","(","$","h","t","t","p","_","o","r","i","g","i","n"," ","~","*"," ","(","a",")",")"," ","{">>,
     <<"I","F"," ","(","$","H","T","T","P","_","O","R","I","G","I","N"," ","~","*"," ","(","a",")",")"," ","{">>,
     <<"a","d","d","_","h","e","a","d","e","r"," ","A","c","c","e","s","s","-","C","o","n","t","r","o","l","-","A","l","l","o","w","-","M","e","t","h","o","d","s"," ","\"","G","E","T","\"",";">>,
     <<"r","e","w","r","i","t","e"," ","^"," ","/","f","o","o",";">>,
     <<"p","r","o","x","y","_","s","e","t","_","h","e","a","d","e","r"," ","X","-","O","f","f","s","e","t"," ","1",";">>,
     <<"}">>}

\* tokens of a header line: quoted with either quote character, bare, or a stray quote
QuoteTokens ==
    {<<"\"","A","c","c","e","s","s","-","C","o","n","t","r","o","l","-","A","l","l","o","w","-","M","e","t","h","o","d","s","\"">>,
     <<"'","A","c","c","e","s","s","-","C","o","n","t","r","o","l","-","A","l","l","o","w","-","M","e","t","h","o","d","s","'">>,
     <<"\"","G","E","T",","," ","P","U","T","\"",";">>,
     <<"'","G","E","T","'",";">>,
     <<"a","d","d","_","h","e","a","d","e","r">>,
     <<"\"">>}

\* the sequences of at most n elements of S
RECURSIVE SeqsUpTo(_, _)
SeqsUpTo(S, n) ==
    IF n = 0 THEN {<<>>}
    ELSE LET shorter == SeqsUpTo(S, n - 1)
         IN  shorter \cup {Append(q, x) : q \in {r \in shorter : Len(r) = n - 1}, x \in S}

\* the annotation text: the lines joined by line breaks
Snippets(S, n) == {Join(ls, <<"\n">>) : ls \in SeqsUpTo(S, n)}

SnippetAnnotations(S, n) ==
    {EmptyMap} \cup {(SnippetKey :> s) : s \in Snippets(S, n)}

GenericAnnotations == SnippetAnnotations(GenericLines, MaxLines)

CorsAnnotations == SnippetAnnotations(CorsLines, MaxCorsLines)

SSLAnnotations == {(SslRedirectKey :> <<"f","a","l","s","e">>) @@ (ForceSslRedirectKey :> <<"t","r","u","e">>)}

VHostAnnotations == {(UpstreamVhostKey :> <<"h",".","e","x","a","m","p","l","e">>)}

DetectInputs == SeqsUpTo(DetectLines, MaxDetectLines)

QuoteInputs == {Join(ts, <<" ">>) : ts \in SeqsUpTo(QuoteTokens, MaxTokens)}

ExtraAnnotationSets == {(ProxyBufferingKey :> <<"o","f","f">>) @@ (BackendProtocolKey :> <<"G","R","P","C">>)}

(* ---------------------------- state machine --------------------------- *)

Converters == {"ConfigurationSnippet", "SSLRedirect", "UpstreamVHost", "ExtraAnnotations"}

NoCall == [op |-> "none", ctx |-> [Annotations |-> EmptyMap, Namespace |-> "", IngressName |-> ""],
           before |-> [Middlewares |-> <<>>, Warnings |-> <<>>]]

Idle == [fn |-> "none", arg |-> <<>>, out |-> <<>>, done |-> FALSE]

Init ==
    /\ ingress \in Ingresses
    /\ result = [Middlewares |-> <<>>, Warnings |-> <<>>]
    /\ ran = {}
    /\ last = NoCall
    /\ probe = Idle

Context(ann) ==
    [Annotations |-> ann, Namespace |-> ingress.Namespace, IngressName |-> ingress.IngressName]

\* the orchestrator runs each converter at most once on a result
MayRun(op) == op \notin ran /\ Cardinality(ran) < MaxCalls

\* converter op ran on a context with annotations ann and left the result after
Call(op, ann, after) ==
    /\ result' = after
    /\ ran' = ran \cup {op}
    /\ last' = [op |-> op, ctx |-> Context(ann), before |-> result]
    /\ UNCHANGED <<ingress, probe>>

RunConfigurationSnippet(anns) ==
    /\ MayRun("ConfigurationSnippet")
    /\ \E ann \in anns :
          Call("ConfigurationSnippet", ann, ConfigurationSnippet(Context(ann), result))

RunSSLRedirect ==
    /\ MayRun("SSLRedirect")
    /\ \E ann \in SSLAnnotations :
          Call("SSLRedirect", ann, SSLRedirect(Context(ann), result))

RunUpstreamVHost ==
    /\ MayRun("UpstreamVHost")
    /\ \E ann \in VHostAnnotations :
          Call("UpstreamVHost", ann, UpstreamVHost(Context(ann), result))

RunExtraAnnotations ==
    /\ MayRun("ExtraAnnotations")
    /\ \E ann \in ExtraAnnotationSets :
          Call("ExtraAnnotations", ann, ExtraAnnotations(Context(ann), result))

Next ==
    \/ RunConfigurationSnippet(GenericAnnotations)
    \/ RunSSLRedirect
    \/ RunExtraAnnotations

Spec == Init /\ [][Next]_vars

NextCors ==
    \/ RunConfigurationSnippet(CorsAnnotations)
    \/ RunUpstreamVHost

SpecCors == Init /\ [][NextCors]_vars

(* ---- helper functions applied on their own ---- *)

InitProbe(fn, args) ==
    /\ ingress = [Namespace |-> "default", IngressName |-> "web"]
    /\ result = [Middlewares |-> <<>>, Warnings |-> <<>>]
    /\ ran = {}
    /\ last = NoCall
    /\ probe \in {[fn |-> fn, arg |-> a, out |-> <<>>, done |-> FALSE] : a \in args}

Apply(fn, out) ==
    /\ probe.fn = fn
    /\ ~probe.done
    /\ probe' = [probe EXCEPT !.out = <<out>>, !.done = TRUE]
    /\ UNCHANGED <<ingress, result, ran, last>>

ApplyDetector == Apply("isConditionalCORSSnippet", isConditionalCORSSnippet(probe.arg))

ApplyExtractQuoted == Apply("extractQuotedHeaderValue", extractQuotedHeaderValue(probe.arg))

SpecDetect == InitProbe("isConditionalCORSSnippet", DetectInputs) /\ [][ApplyDetector]_vars

SpecQuoted == InitProbe("extractQuotedHeaderValue", QuoteInputs) /\ [][ApplyExtractQuoted]_vars

(* ------------------------------ properties ---------------------------- *)

\* the state right after a call of ConfigurationSnippet
AfterSnippet == last.op = "ConfigurationSnippet"

Before == last.before

HasSnippet == SnippetKey \in DOMAIN last.ctx.Annotations

SnippetText == IF HasSnippet THEN last.ctx.Annotations[SnippetKey] ELSE <<>>

SnippetLines == splitLines(SnippetText)

IsPrefix(p, q) == Len(p) <= Len(q) /\ SubSeq(q, 1, Len(p)) = p

\* what the call appended
NewMiddlewares == SubSeq(result.Middlewares, Len(Before.Middlewares) + 1, Len(result.Middlewares))

NewWarnings == SubSeq(result.Warnings, Len(Before.Warnings) + 1, Len(result.Warnings))

AppendedOnly ==
    IsPrefix(Before.Middlewares, result.Middlewares) /\ IsPrefix(Before.Warnings, result.Warnings)

NameOf(suffix) == <<ingress.IngressName, "-", suffix>>

DisqualifyingMarkers == {<<"r","e","w","r","i","t","e">>, <<"p","r","o","x","y","_","p","a","s","s">>, <<"f","a","s","t","c","g","i">>, <<"l","u","a","_">>, <<"s","e","t"," ">>}

\* the detector as the specification words it
Detected(lines) ==
    /\ \E i \in 1..Len(lines) : Contains(ToLower(lines[i]), <<"i","f"," ","(","$","h","t","t","p","_","o","r","i","g","i","n">>)
    /\ \E i \in 1..Len(lines) : Contains(ToLower(lines[i]), <<"a","c","c","e","s","s","-","c","o","n","t","r","o","l","-","a","l","l","o","w","-","m","e","t","h","o","d","s">>)
    /\ ~\E i \in 1..Len(lines) : \E m \in DisqualifyingMarkers : Contains(ToLower(lines[i]), m)

OriginFound(lines) ==
    \E i \in 1..Len(lines) : originIfReFindStringSubmatch(lines[i]) # <<>>

FailedToParse == <<"failed to parse conditional CORS snippet; skipped">>

\* C1: one call of ConfigurationSnippet appends at most one middleware, a
\* "cors" one only when the detector is true and a "snippet-headers" one only
\* when it is false, so never both for the same snippet.
C1_OneMiddlewarePerCall ==
    AfterSnippet =>
        /\ AppendedOnly
        /\ Len(NewMiddlewares) <= 1
        /\ \A i \in 1..Len(NewMiddlewares) :
              NewMiddlewares[i].Name =
                 IF Detected(SnippetLines) THEN NameOf("cors") ELSE NameOf("snippet-headers")

\* a CORS middleware appended behind the middlewares of earlier converters
C1_Witness ==
    /\ AfterSnippet
    /\ Before.Middlewares # <<>>
    /\ Detected(SnippetLines)
    /\ Len(NewMiddlewares) = 1
    /\ NewMiddlewares[1].Name = NameOf("cors")

\* the lines of ls in the order perm, a permutation of 1..Len(ls)
Permuted(ls, perm) == [i \in 1..Len(ls) |-> ls[perm[i]]]

PermutationsOf(n) == {f \in [1..n -> 1..n] : \A i, j \in 1..n : f[i] = f[j] => i = j}

DetectorApplied == probe.fn = "isConditionalCORSSnippet" /\ probe.done

\* C2: isConditionalCORSSnippet is true iff some line has the origin-conditional
\* marker, some line has the allow-methods header name and no line has a
\* disqualifying marker; every permutation of the lines gives the same answer.
C2_DetectorIffAndOrderFree ==
    DetectorApplied =>
        /\ probe.out[1] = Detected(probe.arg)
        /\ \A perm \in PermutationsOf(Len(probe.arg)) :
              isConditionalCORSSnippet(Permuted(probe.arg, perm)) = probe.out[1]

\* both positive lines first, the disqualifying line last: the answer is false
C2_Witness ==
    /\ DetectorApplied
    /\ Len(probe.arg) = 3
    /\ Contains(ToLower(probe.arg[1]), <<"i","f"," ","(","$","h","t","t","p","_","o","r","i","g","i","n">>)
    /\ Contains(ToLower(probe.arg[2]), <<"a","c","c","e","s","s","-","c","o","n","t","r","o","l","-","a","l","l","o","w","-","m","e","t","h","o","d","s">>)
    /\ Contains(ToLower(probe.arg[3]), <<"r","e","w","r","i","t","e">>)
    /\ probe.out = <<FALSE>>

\* C3: detector true but no line matching the origin regex: exactly one
\* warning ("failed to parse conditional CORS snippet; skipped") is appended,
\* no middleware, and the generic scan does not run.
C3_ParseFailureWarnsOnce ==
    (AfterSnippet /\ Detected(SnippetLines) /\ ~OriginFound(SnippetLines)) =>
        /\ result.Middlewares = Before.Middlewares
        /\ result.Warnings = Append(Before.Warnings, FailedToParse)

C3_Witness ==
    /\ AfterSnippet
    /\ Detected(SnippetLines)
    /\ ~OriginFound(SnippetLines)
    /\ Len(SnippetLines) = 3
    /\ NewWarnings = <<FailedToParse>>

\* the call took the generic per-line path
GenericPath == AfterSnippet /\ SnippetLines # <<>> /\ ~Detected(SnippetLines)

\* the call took the CORS path and the origin regex was found
CorsPath == AfterSnippet /\ Detected(SnippetLines) /\ OriginFound(SnippetLines)

\* line is a response-header directive that parses
RespOk(line) ==
    /\ directive(ToLower(line)) \in {<<"a","d","d","_","h","e","a","d","e","r">>, <<"m","o","r","e","_","s","e","t","_","h","e","a","d","e","r","s">>}
    /\ parseResponseHeader(line)[3]

\* line is a request-header directive that yields a key
ReqOk(line) ==
    /\ directive(ToLower(line)) = <<"p","r","o","x","y","_","s","e","t","_","h","e","a","d","e","r">>
    /\ parseProxySetHeader(line)[1] # <<>>

RespKey(line) == parseResponseHeader(line)[1]
RespVal(line) == parseResponseHeader(line)[2]
ReqKey(line) == parseProxySetHeader(line)[1]
ReqVal(line) == parseProxySetHeader(line)[2]

\* the header map of the lines that parse: for each key, the value of the last such line
ExpectedMap(lines, Ok(_), Key(_), Val(_)) ==
    LET good == {i \in 1..Len(lines) : Ok(lines[i])}
    IN  [k \in {Key(lines[i]) : i \in good} |->
            Val(lines[Max({i \in good : Key(lines[i]) = k})])]

ExpectedReq == ExpectedMap(SnippetLines, ReqOk, ReqKey, ReqVal)

ExpectedResp == ExpectedMap(SnippetLines, RespOk, RespKey, RespVal)

\* C4: in the generic scan every line that adds no header entry appends exactly
\* one warning and the lines after it are still processed (a line that adds a
\* request header adds one more warning when its value holds a variable); a snippet
\* with no successfully parsed header line yields zero middlewares and as many
\* warnings as it has lines.
C4_OneWarningPerRejectedLine ==
    GenericPath =>
        LET lines    == SnippetLines
            rejected == {i \in 1..Len(lines) : ~RespOk(lines[i]) /\ ~ReqOk(lines[i])}
            variable == {i \in 1..Len(lines) :
                            ReqOk(lines[i]) /\ Contains(ReqVal(lines[i]), <<"$">>)}
        IN  /\ Len(NewWarnings) = Cardinality(rejected) + Cardinality(variable)
            /\ (Cardinality(rejected) = Len(lines) =>
                   NewMiddlewares = <<>> /\ Len(NewWarnings) = Len(lines))

\* C5: on the generic path no middleware is appended iff both header maps are
\* empty; otherwise exactly one, named <base>-snippet-headers, whose request and
\* response maps hold exactly the pairs of the header lines that parsed, a
\* later line overriding an earlier one with the same key.
C5_HeadersMiddleware ==
    GenericPath =>
        IF DOMAIN ExpectedReq = {} /\ DOMAIN ExpectedResp = {}
        THEN NewMiddlewares = <<>>
        ELSE /\ Len(NewMiddlewares) = 1
             /\ NewMiddlewares[1].Name = NameOf("snippet-headers")
             /\ NewMiddlewares[1].Spec.Headers =
                   <<[ZeroHeaders EXCEPT !.CustomRequestHeaders = ExpectedReq,
                                         !.CustomResponseHeaders = ExpectedResp]>>

\* two response-header lines with the same key: the value of the second is kept
C5_Witness ==
    /\ GenericPath
    /\ Len(SnippetLines) = 2
    /\ RespOk(SnippetLines[1]) /\ RespOk(SnippetLines[2])
    /\ RespKey(SnippetLines[1]) = RespKey(SnippetLines[2])
    /\ RespVal(SnippetLines[1]) # RespVal(SnippetLines[2])
    /\ Len(NewMiddlewares) = 1
    /\ NewMiddlewares[1].Spec.Headers[1].CustomResponseHeaders[RespKey(SnippetLines[2])]
          = RespVal(SnippetLines[2])

\* the lines the extractor reads the allow-methods value from
MethodsLines(lines) ==
    {i \in 1..Len(lines) :
        /\ Contains(ToLower(lines[i]), <<"a","c","c","e","s","s","-","c","o","n","t","r","o","l","-","a","l","l","o","w","-","m","e","t","h","o","d","s">>)
        /\ ~Contains(ToLower(lines[i]), <<"a","c","c","e","s","s","-","c","o","n","t","r","o","l","-","a","l","l","o","w","-","h","e","a","d","e","r","s">>)}

\* the allow-methods list extracted from the snippet: that of the last such line
ExtractedMethods(lines) ==
    IF MethodsLines(lines) = {} THEN <<>>
    ELSE splitCSV(extractQuotedHeaderValue(lines[Max(MethodsLines(lines))]))

\* C6: when the detector fires and the origin regex is found, the emitted
\* allow-methods list is [GET, POST, PUT, DELETE, OPTIONS] if no allow-methods
\* value was extracted, and the extracted list unchanged otherwise.
C6_DefaultMethods ==
    CorsPath =>
        /\ Len(NewMiddlewares) = 1
        /\ NewMiddlewares[1].Spec.Headers[1].AccessControlAllowMethods =
              IF ExtractedMethods(SnippetLines) = <<>>
              THEN <<<<"G","E","T">>, <<"P","O","S","T">>, <<"P","U","T">>, <<"D","E","L","E","T","E">>, <<"O","P","T","I","O","N","S">>>>
              ELSE ExtractedMethods(SnippetLines)

\* an allow-methods line whose quoted value holds only empty items
C6_Witness ==
    /\ CorsPath
    /\ MethodsLines(SnippetLines) # {}
    /\ ExtractedMethods(SnippetLines) = <<>>
    /\ Len(NewMiddlewares) = 1
    /\ Len(NewMiddlewares[1].Spec.Headers[1].AccessControlAllowMethods) = 5

PartiallyParsed ==
    <<"conditional CORS snippet was partially parsed; verify generated middleware">>

Converted == <<"conditional NGINX CORS logic was converted to Traefik CORS middleware">>

\* the capture of the first line the origin regex matches
ExpectedOrigin(lines) ==
    originIfReFindStringSubmatch(
        lines[Min({i \in 1..Len(lines) : originIfReFindStringSubmatch(lines[i]) # <<>>})])[2]

\* C7: a successful CORS conversion appends exactly one middleware, named
\* <base>-cors, whose allow-origin pattern list is the extracted origin regex
\* alone; it appends the "partially parsed" warning iff the allow-headers or
\* the allow-methods list of the configuration is empty, and then the
\* "converted to Traefik CORS middleware" note, which comes last.
C7_CorsMiddlewareAndWarnings ==
    CorsPath =>
        /\ Len(NewMiddlewares) = 1
        /\ result.Middlewares = Append(Before.Middlewares, NewMiddlewares[1])
        /\ NewMiddlewares[1].Name = NameOf("cors")
        /\ LET h == NewMiddlewares[1].Spec.Headers[1]
           IN  /\ h.AccessControlAllowOriginListRegex = <<ExpectedOrigin(SnippetLines)>>
               /\ result.Warnings = Before.Warnings
                     \o (IF h.AccessControlAllowHeaders = <<>> \/ h.AccessControlAllowMethods = <<>>
                         THEN <<PartiallyParsed>> ELSE <<>>)
                     \o <<Converted>>

\* allow-headers present: only the closing note is appended
C7_Witness ==
    /\ CorsPath
    /\ Len(NewMiddlewares) = 1
    /\ NewMiddlewares[1].Spec.Headers[1].AccessControlAllowHeaders # <<>>
    /\ NewWarnings = <<Converted>>

\* the warnings one line causes in the generic scan
LineWarnings(line) ==
    genericLine([reqHeaders |-> EmptyMap, respHeaders |-> EmptyMap, warnings |-> <<>>],
                line).warnings

RECURSIVE WarningsInLineOrder(_)
WarningsInLineOrder(lines) ==
    IF lines = <<>> THEN <<>>
    ELSE LineWarnings(Head(lines)) \o WarningsInLineOrder(Tail(lines))

\* C8: ConfigurationSnippet only appends: the middlewares and warnings found
\* before the call stay an unchanged prefix; on the generic path the appended
\* warnings are in the order of the lines that caused them; with the
\* annotation absent or the snippet empty or all white space nothing changes.
C8_AppendOnly ==
    AfterSnippet =>
        /\ AppendedOnly
        /\ (GenericPath => NewWarnings = WarningsInLineOrder(SnippetLines))
        /\ ((~HasSnippet \/ \A i \in 1..Len(SnippetText) : IsSpace(SnippetText[i]))
               => result = Before)

\* warnings of two lines appended behind the warnings of an earlier converter
C8_Witness ==
    /\ GenericPath
    /\ Before.Warnings # <<>>
    /\ Len(SnippetLines) = 2
    /\ LineWarnings(SnippetLines[1]) # <<>>
    /\ LineWarnings(SnippetLines[2]) # <<>>
    /\ LineWarnings(SnippetLines[1]) # LineWarnings(SnippetLines[2])
    /\ result.Warnings =
          Before.Warnings \o LineWarnings(SnippetLines[1]) \o LineWarnings(SnippetLines[2])

QuotedApplied == probe.fn = "extractQuotedHeaderValue" /\ probe.done

\* the spans <<open, close>> of the segments of line quoted with q: the quotes
\* pair up from the left
QuotedSpans(line, q) ==
    LET at == {i \in 1..Len(line) : line[i] = q}
    IN  {sp \in at \X at :
            /\ sp[1] < sp[2]
            /\ Cardinality({x \in at : x < sp[1]}) % 2 = 0
            /\ ~\E x \in at : sp[1] < x /\ x < sp[2]}

\* the quoted segment of line that ends furthest to the right, "" if there is none
RightmostQuoted(line) ==
    LET spans == QuotedSpans(line, "\"") \cup QuotedSpans(line, "'")
    IN  IF spans = {} THEN <<>>
        ELSE LET sp == CHOOSE x \in spans : \A y \in spans : y[2] <= x[2]
             IN  SubSeq(line, sp[1] + 1, sp[2] - 1)

\* C9: extractQuotedHeaderValue returns the last quoted segment of the line, the
\* one that ends furthest to the right, whichever quote character delimits it.
C9_ReturnsRightmostQuoted ==
    QuotedApplied => probe.out[1] = RightmostQuoted(probe.arg)

\* line with its first token in lower case
FoldKeyword(line) ==
    LET e == WordEnd(line, 1)
    IN  ToLower(SubSeq(line, 1, e - 1)) \o SubSeq(line, e, Len(line))

FoldKeywords(lines) == [i \in 1..Len(lines) |-> FoldKeyword(lines[i])]

\* C10: keyword matching in the generic scan is case-insensitive: the snippet
\* and the snippet with every first token in lower case yield the same header
\* entries.
C10_KeywordCaseInsensitive ==
    GenericPath =>
        result.Middlewares =
            ConfigurationSnippet(
                [last.ctx EXCEPT !.Annotations =
                    (SnippetKey :> Join(FoldKeywords(SnippetLines), <<"\n">>))],
                Before).Middlewares

====
